---- MODULE Spec2Model ----
(***************************************************************************)
(* Model of the embedding service of                                       *)
(* src/server/services/transformersEmbeddings.js (class                    *)
(* TransformersEmbeddings, one process-wide instance).                     *)
(*                                                                         *)
(* The service is driven by logically concurrent callers on one JavaScript *)
(* event loop: the code between two awaits runs atomically, and every      *)
(* await is a suspension point at which any other caller may run.  Each    *)
(* caller performs one top-level operation; callers start at arbitrary     *)
(* times, so "a later call" is a caller that starts late.                  *)
(*                                                                         *)
(* Environment choices: the model load (pipeline) succeeds or fails, and   *)
(* every per-text inference (this.model(text)) succeeds or fails, each at  *)
(* an arbitrary time and with an arbitrary underlying error message.       *)
(*                                                                         *)
(* The return of a value or an exception through frames that touch no      *)
(* shared field on the way (embedDocuments -> embedQuery ->                *)
(* getEmbeddingDimension -> healthCheck -> getServiceInfo) is folded into  *)
(* the step that produces it.                                              *)
(***************************************************************************)
EXTENDS Integers, Sequences, FiniteSets, TLC

\* ---------------------------------------------------------------- bounds
NumCallers == 2      \* concurrent callers of the shared workload
MaxShared  == 1      \* longest text list a caller of the shared workload passes
MaxLen     == 17     \* longest text list of the single-caller batch workload
MaxLive    == 0      \* longest text list of the workload checked for liveness
Dim        == 2      \* output length of the loaded model

\* ------------------------------------------------------ program constants
batchSize == 8

modelName == "Xenova/all-MiniLM-L6-v2"

ProbeText == "test"

MsgInit      == "Failed to initialize embedding model: "
MsgNoTexts   == "No texts provided for embedding"
MsgEmbedText == "Failed to embed text: "
MsgGenerate  == "Failed to generate embeddings: "
MsgQuery     == "Failed to generate query embedding: "
MsgDimension == "Failed to get embedding dimension: "

\* ------------------------------------------------------------ environment
Callers == 1..NumCallers

\* the texts callers pass; "" is the empty string
Alphabet == <<"", "a">>

\* error.message of what the pipeline load throws
LoadCauses == {"", "fetch failed"}

\* error.message of what an inference throws
InferenceCauses == {""}

\* a list of n texts, adjacent texts distinct
Pattern(n) == [j \in 1..n |-> Alphabet[(j % Len(Alphabet)) + 1]]

\* the arguments of embedDocuments: an array of texts, or one bare text
TextInputs(maxLen) ==
    { [isArray |-> TRUE, items |-> Pattern(n)] : n \in 0..maxLen }
    \cup { [isArray |-> FALSE, text |-> Alphabet[k]] : k \in 1..Len(Alphabet) }

Min(a, b) == IF a < b THEN a ELSE b

VARIABLES
    model,                  \* this.model: "null" or "pipeline"
    isInitialized,          \* this.isInitialized
    initializationPromise,  \* this.initializationPromise: [state, error]
    cachedDimension,        \* this._cachedDimension, 0 for null
    workload,               \* who calls and with how long a list
    op,                     \* per caller: the top-level operation
    pc,                     \* per caller: the await it is suspended at
    awaiting,               \* per caller: what its await of initialize() waits on
    texts,                  \* per caller: the argument of embedDocuments
    i,                      \* per caller: loop variable of embedDocuments
    embeddings,             \* per caller: embeddings accumulated so far
    slots,                  \* per caller: state of the per-text computations of the batch
    rejection,              \* per caller: state of the batch's Promise.all
    result,                 \* per caller: how the top-level call ended
    loads,                  \* history: pipeline() calls started
    probes,                 \* history: embedQuery('test') calls started
    initSeen,               \* history: what the caller's awaits of initialize() gave
    failedAt,               \* history: input index of the first failed text of the call
    loading,                \* pipeline() calls started and not yet settled
    modelWrites,            \* history: assignments to this.model
    inferences              \* history, per caller: this.model(text) calls started

svcVars == <<model, isInitialized, initializationPromise, cachedDimension>>
callVars == <<op, pc, awaiting, texts, i, embeddings, slots, rejection, result>>
histVars == <<loads, probes, initSeen, failedAt>>
vars == <<model, isInitialized, initializationPromise, cachedDimension, workload,
          op, pc, awaiting, texts, i, embeddings, slots, rejection, result,
          loads, probes, initSeen, failedAt, loading, modelWrites, inferences>>

\* ------------------------------------------------------------ construction
NoPromise == [state |-> "null", error |-> <<>>]
NoArg     == [isArray |-> TRUE, items |-> <<>>]
NoResult  == [kind |-> "none"]
NoRejection == [rejected |-> FALSE, message |-> <<>>]

Constructed ==
    /\ model = "null"
    /\ isInitialized = FALSE
    /\ initializationPromise = NoPromise
    /\ cachedDimension = 0
    /\ op = [c \in Callers |-> "none"]
    /\ pc = [c \in Callers |-> "idle"]
    /\ awaiting = [c \in Callers |-> "none"]
    /\ texts = [c \in Callers |-> NoArg]
    /\ i = [c \in Callers |-> 0]
    /\ embeddings = [c \in Callers |-> <<>>]
    /\ slots = [c \in Callers |-> <<>>]
    /\ rejection = [c \in Callers |-> NoRejection]
    /\ result = [c \in Callers |-> NoResult]
    /\ loads = 0
    /\ probes = 0
    /\ initSeen = [c \in Callers |-> "none"]
    /\ failedAt = [c \in Callers |-> 0]
    /\ loading = 0
    /\ modelWrites = 0
    /\ inferences = [c \in Callers |-> 0]

\* many concurrent callers, short text lists
Init == Constructed /\ workload = [callers |-> Callers, maxLen |-> MaxShared]

\* many concurrent callers, single texts and the empty list
InitLive == Constructed /\ workload = [callers |-> Callers, maxLen |-> MaxLive]

\* one caller, text lists shorter than, equal to and longer than a batch
InitBatch == Constructed /\ workload = [callers |-> {1}, maxLen |-> MaxLen]


\* ------------------------------------------------------------ pure helpers
\* the length test applied to the argument as passed: an empty string has
\* length 0 like an empty array
TextArrayByLength(arg) ==
    IF arg.isArray THEN arg.items
    ELSE IF arg.text = "" THEN <<>> ELSE <<arg.text>>

\* Array.isArray(texts) ? texts : [texts]
TextArray(arg) == IF arg.isArray THEN arg.items ELSE <<arg.text>>

\* textArray.slice(i, i + batchSize), i counted from 0
Slice(textArray, from) ==
    SubSeq(textArray, from + 1, Min(from + batchSize, Len(textArray)))

\* Array.from(result.data) of this.model(text, ...): the vector of the text
Embed(text) == [k \in 1..Dim |-> text]

\* the batch's vectors collected back to front
BatchEmbeddingsReversed(batch) ==
    [j \in 1..Len(batch) |-> Embed(batch[Len(batch) + 1 - j])]

\* what Promise.all(batch.map(...)) resolves to: one vector per text, by index
BatchEmbeddings(batch) == [j \in 1..Len(batch) |-> Embed(batch[j])]

\* new Error(`${prefix}${error.message}`)
Wrap(prefix, message) == <<prefix>> \o message

\* the text of a message, empty or not
IsEmptyMessage(message) == \A k \in 1..Len(message) : message[k] = ""

Raised(message) == [kind |-> "raised", message |-> message]
Returned(value) == [kind |-> "returned", value |-> value]

\* initialize() without the check for an attempt in flight
ShouldStartLoadUnguarded(initialized, promiseState) == ~initialized

\* initialize(): is a model load started by this call
ShouldStartLoad(initialized, promiseState) ==
    ~initialized /\ promiseState = "null"

\* initialize(): what the caller's await waits on
InitializeReturns(initialized) == IF initialized THEN "resolved" ELSE "promise"

\* _initializeModel keeping the pipeline in a local instead of this.model
InitializeModelTryNoModel == [model |-> "null", isInitialized |-> TRUE]

\* _initializeModel, the try block: what it assigns once the pipeline resolved
InitializeModelTry == [model |-> "pipeline", isInitialized |-> TRUE]

\* _initializeModel, the try block after the pipeline resolved
InitializeModelDone == [state |-> "fulfilled", error |-> <<>>]

\* _initializeModel with a catch block that does not rethrow
InitializeModelCatchSwallowed(cause) == [state |-> "fulfilled", error |-> <<>>]

\* _initializeModel whose failure leaves the shared promise unsettled
InitializeModelCatchPending(cause) == [state |-> "pending", error |-> <<>>]

\* _initializeModel, the catch block
InitializeModelCatch(cause) ==
    [state |-> "rejected", error |-> Wrap(MsgInit, <<cause>>)]

\* the catch block of the per-text computation
EmbedTextCatch(cause) == Wrap(MsgEmbedText, <<cause>>)

\* a per-text computation failed and its catch block swallowed the error
RejectsSwallowed(rej, cause) == rej

\* a per-text computation failed: its catch block rethrows, and the batch's
\* Promise.all, in state rej, rejects with the first error thrown into it
Rejects(rej, cause) ==
    IF rej.rejected THEN rej
    ELSE [rejected |-> TRUE, message |-> EmbedTextCatch(cause)]

\* the catch blocks of embedDocuments, embedQuery, getEmbeddingDimension
EmbedDocumentsCatch(message) == Wrap(MsgGenerate, message)
EmbedQueryCatch(message) == Wrap(MsgQuery, message)
GetEmbeddingDimensionCatch(message) == Wrap(MsgDimension, message)

\* getEmbeddingDimension without the test of the cache
HasCachedDimensionNever(cached) == FALSE

\* getEmbeddingDimension: if (this._cachedDimension)
HasCachedDimension(cached) == cached # 0

\* getEmbeddingDimension adding to the cached value instead of setting it
CacheAfterProbeAdded(cached, testEmbedding) == cached + Len(testEmbedding)

\* getEmbeddingDimension: this._cachedDimension = testEmbedding.length
CacheAfterProbe(cached, testEmbedding) == Len(testEmbedding)

\* the batch's promises awaited with Promise.race: the first settles it
PromiseAllFulfilledFirst(s) == \E j \in DOMAIN s : s[j] # "pending"

\* the batch's Promise.all, not rejected, is fulfilled: every computation of
\* the batch has settled
PromiseAllFulfilled(s) == \A j \in DOMAIN s : s[j] # "pending"

\* healthCheck, the two records it returns
HealthCheckReturn(dimension, initialized) ==
    Returned([status |-> "healthy", model |-> modelName,
              dimension |-> dimension, initialized |-> initialized])

\* healthCheck with a catch block that rethrows
HealthCheckCatchRethrown(message) == Raised(message)

HealthCheckCatch(message) ==
    Returned([status |-> "unhealthy", error |-> message])

\* getServiceInfo, the record built from the health record
GetServiceInfoReturn(health) ==
    Returned([name |-> "Transformers.js Embeddings", model |-> modelName,
              status |-> health.status,
              dimension |-> IF "dimension" \in DOMAIN health
                            THEN health.dimension ELSE 0,
              hasDimension |-> "dimension" \in DOMAIN health,
              backend |-> "local", cost |-> "free", rateLimit |-> "none"])

\* getServiceInfo, the catch block
GetServiceInfoCatch(message) ==
    Returned([name |-> "Transformers.js Embeddings", model |-> modelName,
              status |-> "error", error |-> message])

\* ----------------------------------- how a frame's outcome reaches the caller
\* healthCheck ended with outcome h
FromHealthCheck(o, h) ==
    IF o = "healthCheck" THEN h
    ELSE IF h.kind = "raised" THEN GetServiceInfoCatch(h.message)
    ELSE GetServiceInfoReturn(h.value)

\* getEmbeddingDimension returned dimension
ReturnFromGetEmbeddingDimension(o, dimension, initialized) ==
    IF o = "getEmbeddingDimension" THEN Returned(dimension)
    ELSE FromHealthCheck(o, HealthCheckReturn(dimension, initialized))

\* getEmbeddingDimension with a catch block that returns a default
RaiseFromGetEmbeddingDimensionDefault(o, message) == Returned(0)

\* an exception reached the catch block of getEmbeddingDimension
RaiseFromGetEmbeddingDimension(o, message) ==
    IF o = "getEmbeddingDimension"
    THEN Raised(GetEmbeddingDimensionCatch(message))
    ELSE FromHealthCheck(o, HealthCheckCatch(GetEmbeddingDimensionCatch(message)))

\* an exception reached the catch block of embedDocuments
RaiseFromEmbedDocuments(o, message) ==
    CASE o = "embedDocuments" -> Raised(EmbedDocumentsCatch(message))
      [] o = "embedQuery" -> Raised(EmbedQueryCatch(EmbedDocumentsCatch(message)))
      [] OTHER -> RaiseFromGetEmbeddingDimension(o,
                      EmbedQueryCatch(EmbedDocumentsCatch(message)))

\* --------------------------------------------------------- shared fragments
\* the synchronous part of initialize(), run by caller c
Initialize(c) ==
    /\ awaiting' = [awaiting EXCEPT ![c] = InitializeReturns(isInitialized)]
    /\ IF ShouldStartLoad(isInitialized, initializationPromise.state)
       THEN /\ initializationPromise' = [state |-> "pending", error |-> <<>>]
            /\ loads' = loads + 1
            /\ loading' = loading + 1
       ELSE UNCHANGED <<initializationPromise, loads, loading>>

\* the caller's await of initialize() can resume
Settled(c) ==
    \/ awaiting[c] = "resolved"
    \/ /\ awaiting[c] = "promise"
       /\ initializationPromise.state \in {"fulfilled", "rejected"}

InitFailed(c) ==
    awaiting[c] = "promise" /\ initializationPromise.state = "rejected"

\* the top-level call of caller c ends
Finish(c, res) ==
    /\ pc' = [pc EXCEPT ![c] = "done"]
    /\ result' = [result EXCEPT ![c] = res]

\* embedDocuments starts the computations of the batch at offset from
StartBatch(c, textArray, from) ==
    /\ i' = [i EXCEPT ![c] = from]
    /\ slots' = [slots EXCEPT ![c] =
                    [j \in 1..Len(Slice(textArray, from)) |-> "pending"]]
    /\ rejection' = [rejection EXCEPT ![c] = NoRejection]
    /\ inferences' = [inferences EXCEPT ![c] =
                         inferences[c] + Len(Slice(textArray, from))]
    /\ pc' = [pc EXCEPT ![c] = "batch"]

\* ------------------------------------------------------------------- calls
Idle(c) == c \in workload.callers /\ pc[c] = "idle"

CallInitialize(c) ==
    /\ Idle(c)
    /\ op' = [op EXCEPT ![c] = "initialize"]
    /\ Initialize(c)
    /\ pc' = [pc EXCEPT ![c] = "init"]
    /\ UNCHANGED <<model, isInitialized, cachedDimension, workload, texts, i,
                   embeddings, slots, rejection, result, probes, initSeen,
                   failedAt, modelWrites, inferences>>

CallEmbedDocuments(c, arg) ==
    /\ Idle(c)
    /\ op' = [op EXCEPT ![c] = "embedDocuments"]
    /\ texts' = [texts EXCEPT ![c] = arg]
    /\ Initialize(c)
    /\ pc' = [pc EXCEPT ![c] = "embedInit"]
    /\ UNCHANGED <<model, isInitialized, cachedDimension, workload, i,
                   embeddings, slots, rejection, result, probes, initSeen,
                   failedAt, modelWrites, inferences>>

CallEmbedQuery(c, text) ==
    /\ Idle(c)
    /\ op' = [op EXCEPT ![c] = "embedQuery"]
    /\ texts' = [texts EXCEPT ![c] = [isArray |-> TRUE, items |-> <<text>>]]
    /\ Initialize(c)
    /\ pc' = [pc EXCEPT ![c] = "embedInit"]
    /\ UNCHANGED <<model, isInitialized, cachedDimension, workload, i,
                   embeddings, slots, rejection, result, probes, initSeen,
                   failedAt, modelWrites, inferences>>

CallGetEmbeddingDimension(c) ==
    /\ Idle(c)
    /\ op' = [op EXCEPT ![c] = "getEmbeddingDimension"]
    /\ Initialize(c)
    /\ pc' = [pc EXCEPT ![c] = "dimInit"]
    /\ UNCHANGED <<model, isInitialized, cachedDimension, workload, texts, i,
                   embeddings, slots, rejection, result, probes, initSeen,
                   failedAt, modelWrites, inferences>>

CallHealthCheck(c) ==
    /\ Idle(c)
    /\ op' = [op EXCEPT ![c] = "healthCheck"]
    /\ Initialize(c)
    /\ pc' = [pc EXCEPT ![c] = "healthInit"]
    /\ UNCHANGED <<model, isInitialized, cachedDimension, workload, texts, i,
                   embeddings, slots, rejection, result, probes, initSeen,
                   failedAt, modelWrites, inferences>>

CallGetServiceInfo(c) ==
    /\ Idle(c)
    /\ op' = [op EXCEPT ![c] = "getServiceInfo"]
    /\ Initialize(c)
    /\ pc' = [pc EXCEPT ![c] = "healthInit"]
    /\ UNCHANGED <<model, isInitialized, cachedDimension, workload, texts, i,
                   embeddings, slots, rejection, result, probes, initSeen,
                   failedAt, modelWrites, inferences>>

\* ---------------------------------------------------------- the model load
\* the pipeline() promise resolves: _initializeModel runs to its end
LoadSucceeds ==
    /\ loading > 0
    /\ loading' = loading - 1
    /\ model' = InitializeModelTry.model
    /\ modelWrites' = modelWrites + 1
    /\ isInitialized' = InitializeModelTry.isInitialized
    /\ initializationPromise' = InitializeModelDone
    /\ UNCHANGED <<cachedDimension, workload, callVars, histVars, inferences>>

\* the pipeline() promise rejects: _initializeModel runs its catch block
LoadFails(cause) ==
    /\ loading > 0
    /\ loading' = loading - 1
    /\ initializationPromise' = InitializeModelCatch(cause)
    /\ UNCHANGED <<model, isInitialized, cachedDimension, workload, callVars,
                   histVars, modelWrites, inferences>>

\* ------------------------------------------------ resuming after initialize()
\* what the await of initialize() gave caller c
Seen(c) == IF InitFailed(c) THEN "err" ELSE "ok"

\* initialize() called from outside: the caller's await resumes
ResumeInitialize(c) ==
    /\ pc[c] = "init"
    /\ Settled(c)
    /\ initSeen' = [initSeen EXCEPT ![c] = Seen(c)]
    /\ awaiting' = [awaiting EXCEPT ![c] = "none"]
    /\ Finish(c, IF InitFailed(c) THEN Raised(initializationPromise.error)
                 ELSE Returned("undefined"))
    /\ UNCHANGED <<svcVars, workload, op, texts, i, embeddings, slots,
                   rejection, loads, probes, failedAt, loading, modelWrites,
                   inferences>>

\* healthCheck after its await of initialize(): calls getEmbeddingDimension,
\* which runs to its own await of initialize()
ResumeHealthCheck(c) ==
    /\ pc[c] = "healthInit"
    /\ Settled(c)
    /\ initSeen' = [initSeen EXCEPT ![c] = Seen(c)]
    /\ IF InitFailed(c)
       THEN /\ Finish(c, FromHealthCheck(op[c],
                             HealthCheckCatch(initializationPromise.error)))
            /\ awaiting' = [awaiting EXCEPT ![c] = "none"]
            /\ UNCHANGED <<initializationPromise, loads, loading>>
       ELSE /\ Initialize(c)
            /\ pc' = [pc EXCEPT ![c] = "dimInit"]
            /\ UNCHANGED result
    /\ UNCHANGED <<model, isInitialized, cachedDimension, workload, op, texts,
                   i, embeddings, slots, rejection, probes, failedAt,
                   modelWrites, inferences>>

\* getEmbeddingDimension after its await of initialize(): returns the cached
\* dimension, or calls embedQuery('test'), which calls embedDocuments(['test']),
\* which runs to its await of initialize()
ResumeGetEmbeddingDimension(c) ==
    /\ pc[c] = "dimInit"
    /\ Settled(c)
    /\ initSeen' = [initSeen EXCEPT ![c] = Seen(c)]
    /\ IF InitFailed(c)
       THEN /\ Finish(c, RaiseFromGetEmbeddingDimension(op[c],
                             initializationPromise.error))
            /\ awaiting' = [awaiting EXCEPT ![c] = "none"]
            /\ UNCHANGED <<initializationPromise, loads, loading, probes, texts>>
       ELSE IF HasCachedDimension(cachedDimension)
       THEN /\ Finish(c, ReturnFromGetEmbeddingDimension(op[c],
                             cachedDimension, isInitialized))
            /\ awaiting' = [awaiting EXCEPT ![c] = "none"]
            /\ UNCHANGED <<initializationPromise, loads, loading, probes, texts>>
       ELSE /\ probes' = probes + 1
            /\ texts' = [texts EXCEPT ![c] =
                            [isArray |-> TRUE, items |-> <<ProbeText>>]]
            /\ Initialize(c)
            /\ pc' = [pc EXCEPT ![c] = "embedInit"]
            /\ UNCHANGED result
    /\ UNCHANGED <<model, isInitialized, cachedDimension, workload, op, i,
                   embeddings, slots, rejection, failedAt, modelWrites,
                   inferences>>

\* embedDocuments after its await of initialize(): rejects an empty list, or
\* starts the computations of the first batch
ResumeEmbedDocuments(c) ==
    /\ pc[c] = "embedInit"
    /\ Settled(c)
    /\ initSeen' = [initSeen EXCEPT ![c] = Seen(c)]
    /\ awaiting' = [awaiting EXCEPT ![c] = "none"]
    /\ IF InitFailed(c)
       THEN /\ Finish(c, RaiseFromEmbedDocuments(op[c],
                             initializationPromise.error))
            /\ UNCHANGED <<i, slots, rejection, inferences>>
       ELSE IF Len(TextArray(texts[c])) = 0
       THEN /\ Finish(c, RaiseFromEmbedDocuments(op[c], <<MsgNoTexts>>))
            /\ UNCHANGED <<i, slots, rejection, inferences>>
       ELSE /\ StartBatch(c, TextArray(texts[c]), 0)
            /\ UNCHANGED result
    /\ embeddings' = [embeddings EXCEPT ![c] = <<>>]
    /\ UNCHANGED <<svcVars, workload, op, texts, loads, probes, failedAt,
                   loading, modelWrites>>

\* ------------------------------------------------- per-text computations
\* this.model(text) of slot j resolves
InferenceSucceeds(c, j) ==
    /\ j \in DOMAIN slots[c]
    /\ slots[c][j] = "pending"
    /\ slots' = [slots EXCEPT ![c][j] = "ok"]
    /\ UNCHANGED <<svcVars, workload, op, pc, awaiting, texts, i, embeddings,
                   rejection, result, histVars, loading, modelWrites,
                   inferences>>

\* this.model(text) of slot j rejects: the computation's catch block rethrows,
\* and Promise.all rejects with the first such error
InferenceFails(c, j, cause) ==
    /\ j \in DOMAIN slots[c]
    /\ slots[c][j] = "pending"
    /\ slots' = [slots EXCEPT ![c][j] = "err"]
    /\ rejection' = [rejection EXCEPT ![c] = Rejects(rejection[c], cause)]
    /\ failedAt' = [failedAt EXCEPT ![c] =
                       IF failedAt[c] = 0 THEN i[c] + j ELSE failedAt[c]]
    /\ UNCHANGED <<svcVars, workload, op, pc, awaiting, texts, i, embeddings,
                   result, loads, probes, initSeen, loading, modelWrites,
                   inferences>>

\* embedDocuments returned vectors; the frames above it take their share
ReturnFromEmbedDocuments(c, vectors) ==
    CASE op[c] = "embedDocuments" ->
            /\ Finish(c, Returned(vectors))
            /\ UNCHANGED cachedDimension
      [] op[c] = "embedQuery" ->
            /\ Finish(c, Returned(vectors[1]))
            /\ UNCHANGED cachedDimension
      [] OTHER ->
            /\ cachedDimension' = CacheAfterProbe(cachedDimension, vectors[1])
            /\ Finish(c, ReturnFromGetEmbeddingDimension(op[c],
                             Len(vectors[1]), isInitialized))

\* embedDocuments after its await of Promise.all: throws if it rejected; if
\* it did not and every computation of the batch has settled, pushes the
\* batch's vectors and goes on with the next batch or returns
ResumeBatch(c) ==
    /\ pc[c] = "batch"
    /\ IF rejection[c].rejected
       THEN /\ Finish(c, RaiseFromEmbedDocuments(op[c], rejection[c].message))
            /\ UNCHANGED <<cachedDimension, i, embeddings, slots, rejection,
                           inferences>>
       ELSE /\ PromiseAllFulfilled(slots[c])
            /\ LET textArray == TextArray(texts[c])
                   pushed == embeddings[c] \o
                                 BatchEmbeddings(Slice(textArray, i[c]))
               IN  /\ embeddings' = [embeddings EXCEPT ![c] = pushed]
                   /\ IF i[c] + batchSize < Len(textArray)
                      THEN /\ StartBatch(c, textArray, i[c] + batchSize)
                           /\ UNCHANGED <<result, cachedDimension>>
                      ELSE /\ ReturnFromEmbedDocuments(c, pushed)
                           /\ i' = [i EXCEPT ![c] = i[c] + batchSize]
                           /\ UNCHANGED <<slots, rejection, inferences>>
    /\ UNCHANGED <<model, isInitialized, initializationPromise, workload, op,
                   awaiting, texts, histVars, loading, modelWrites>>

\* ----------------------------------------------------------- specification
Next ==
    \/ \E c \in Callers : CallInitialize(c)
    \/ \E c \in Callers : \E arg \in TextInputs(workload.maxLen) :
           CallEmbedDocuments(c, arg)
    \/ \E c \in Callers : \E k \in 1..Len(Alphabet) :
           CallEmbedQuery(c, Alphabet[k])
    \/ \E c \in Callers : CallGetEmbeddingDimension(c)
    \/ \E c \in Callers : CallHealthCheck(c)
    \/ \E c \in Callers : CallGetServiceInfo(c)
    \/ LoadSucceeds
    \/ \E cause \in LoadCauses : LoadFails(cause)
    \/ \E c \in Callers : ResumeInitialize(c)
    \/ \E c \in Callers : ResumeHealthCheck(c)
    \/ \E c \in Callers : ResumeGetEmbeddingDimension(c)
    \/ \E c \in Callers : ResumeEmbedDocuments(c)
    \/ \E c \in Callers : \E j \in 1..batchSize : InferenceSucceeds(c, j)
    \/ \E c \in Callers : \E j \in 1..batchSize : \E cause \in InferenceCauses :
           InferenceFails(c, j, cause)
    \/ \E c \in Callers : ResumeBatch(c)

Spec == Init /\ [][Next]_vars

SpecBatch == InitBatch /\ [][Next]_vars

\* what the event loop and the environment do without a new call: the model
\* load settles, an inference settles, a continuation that can resume resumes
Progress ==
    \/ LoadSucceeds
    \/ \E cause \in LoadCauses : LoadFails(cause)
    \/ \E c \in Callers : ResumeInitialize(c)
    \/ \E c \in Callers : ResumeHealthCheck(c)
    \/ \E c \in Callers : ResumeGetEmbeddingDimension(c)
    \/ \E c \in Callers : ResumeEmbedDocuments(c)
    \/ \E c \in Callers : \E j \in 1..batchSize : InferenceSucceeds(c, j)
    \/ \E c \in Callers : \E j \in 1..batchSize :
           \E cause \in InferenceCauses : InferenceFails(c, j, cause)
    \/ \E c \in Callers : ResumeBatch(c)

\* the model load and every inference eventually settle, and the event loop
\* eventually runs a continuation that can resume
SpecLive == InitLive /\ [][Next]_vars /\ WF_vars(Progress)

TypeOK ==
    /\ model \in {"null", "pipeline"}
    /\ isInitialized \in BOOLEAN
    /\ initializationPromise.state \in {"null", "pending", "fulfilled", "rejected"}
    /\ cachedDimension \in {0, Dim}
    /\ \A c \in Callers :
          /\ pc[c] \in {"idle", "init", "healthInit", "dimInit", "embedInit",
                         "batch", "done"}
          /\ result[c].kind \in {"none", "raised", "returned"}
          /\ (pc[c] = "done") = (result[c].kind # "none")

\* ------------------------------------------------------------------ claims
Called(c) == pc[c] # "idle"
Done(c) == pc[c] = "done"

\* the call of caller c met a failure: of the model load, or of one of its
\* per-text computations
MetFailure(c) == initSeen[c] = "err" \/ failedAt[c] # 0

\* C1: whatever the number of callers that reach initialize() before the
\* service is ready, and however their awaits interleave, exactly one
\* pipeline() call is started: none before the first call, one from then on.
C1_SingleModelLoad ==
    loads = IF \E c \in Callers : Called(c) THEN 1 ELSE 0

\* two callers wait on the attempt while the load is still running
C1_Witness ==
    /\ initializationPromise.state = "pending"
    /\ \E c1, c2 \in Callers :
          c1 # c2 /\ awaiting[c1] = "promise" /\ awaiting[c2] = "promise"

\* C2: after a failed attempt the service is back in the uninitialized state,
\* so a call made while the service is not ready and no load is running
\* starts a new model load.
C2_LaterCallRetries ==
    [][\A c \in Callers :
          (/\ pc[c] = "idle"
           /\ pc'[c] # "idle"
           /\ ~isInitialized
           /\ initializationPromise.state # "pending") => loads' = loads + 1]_vars

\* C3: over all getEmbeddingDimension() calls, overlapping ones included, the
\* probe embedQuery('test') is started at most once, and all calls that
\* return give the same dimension.
C3_ProbeAtMostOnce ==
    /\ probes <= 1
    /\ \A c1, c2 \in Callers :
          (/\ op[c1] = "getEmbeddingDimension" /\ result[c1].kind = "returned"
           /\ op[c2] = "getEmbeddingDimension" /\ result[c2].kind = "returned")
          => result[c1].value = result[c2].value

\* C4: an embedDocuments call that returns gives one vector per input text,
\* the k-th being the embedding of the k-th text, whatever the order in which
\* the per-text computations completed, for lists shorter than, as long as and
\* longer than a batch.
C4_OrderPreserved ==
    \A c \in Callers :
       (op[c] = "embedDocuments" /\ result[c].kind = "returned") =>
          /\ Len(result[c].value) = Len(TextArray(texts[c]))
          /\ \A k \in 1..Len(result[c].value) :
                result[c].value[k] = Embed(TextArray(texts[c])[k])

\* a call with one text more than a batch has returned
C4_Witness ==
    \E c \in Callers :
       /\ op[c] = "embedDocuments"
       /\ result[c].kind = "returned"
       /\ Len(TextArray(texts[c])) = batchSize + 1

\* C5: embedDocuments is all or nothing: a call in which a per-text
\* computation failed, in whichever batch, ends with an error, and a call that
\* returns returns as many vectors as it was given texts.
C5_AllOrNothing ==
    \A c \in Callers :
       (op[c] = "embedDocuments" /\ Done(c)) =>
          IF failedAt[c] # 0 \/ \E j \in DOMAIN slots[c] : slots[c][j] = "err"
          THEN result[c].kind = "raised"
          ELSE result[c].kind = "returned" =>
                  Len(result[c].value) = Len(TextArray(texts[c]))

\* a call of three batches has failed on a text of its middle batch
C5_Witness ==
    \E c \in Callers :
       /\ op[c] = "embedDocuments"
       /\ Done(c)
       /\ Len(TextArray(texts[c])) > 2 * batchSize
       /\ failedAt[c] > batchSize
       /\ failedAt[c] <= 2 * batchSize

\* C6: healthCheck never raises.  It returns the healthy record, with the
\* model name, the model's dimension and initialized = true, exactly when
\* neither the load nor the probe failed, and otherwise the unhealthy record
\* with a non-empty error message.
C6_HealthCheckNeverRaises ==
    \A c \in Callers :
       (op[c] = "healthCheck" /\ Done(c)) =>
          /\ result[c].kind = "returned"
          /\ IF MetFailure(c)
             THEN /\ result[c].value.status = "unhealthy"
                  /\ ~IsEmptyMessage(result[c].value.error)
             ELSE /\ result[c].value.status = "healthy"
                  /\ result[c].value.model = modelName
                  /\ result[c].value.dimension = Dim
                  /\ result[c].value.initialized = TRUE

\* a health check has ended after a model load that failed with an empty
\* message
C6_Witness ==
    \E c \in Callers :
       /\ op[c] = "healthCheck"
       /\ Done(c)
       /\ initSeen[c] = "err"
       /\ initializationPromise.error = Wrap(MsgInit, <<"">>)

\* C7: getServiceInfo never raises, and when the health check under it met a
\* failure the record it returns has status error and carries the message.
C7_ServiceInfoErrorRecord ==
    \A c \in Callers :
       (op[c] = "getServiceInfo" /\ Done(c)) =>
          /\ result[c].kind = "returned"
          /\ MetFailure(c) =>
                /\ result[c].value.status = "error"
                /\ "error" \in DOMAIN result[c].value

\* C8: embedDocuments([]) fails with the error for an empty input whatever
\* state the service is in.
C8_EmptyInputIsInvalidInput ==
    \A c \in Callers :
       (/\ op[c] = "embedDocuments"
        /\ Done(c)
        /\ texts[c].isArray
        /\ Len(TextArray(texts[c])) = 0)
       => result[c] = Raised(Wrap(MsgGenerate, <<MsgNoTexts>>))

\* the text whose computation failed first in the call of caller c
FailedText(c) == TextArray(texts[c])[failedAt[c]]

\* C9: the error of a call that failed on a text tells which text it was:
\* two calls that failed on different texts do not end with the same error.
C9_ErrorIdentifiesFailedText ==
    \A c1, c2 \in Callers :
       (/\ op[c1] \in {"embedDocuments", "embedQuery"}
        /\ op[c2] \in {"embedDocuments", "embedQuery"}
        /\ Done(c1) /\ failedAt[c1] # 0
        /\ Done(c2) /\ failedAt[c2] # 0
        /\ result[c1].kind = "raised"
        /\ result[c2].kind = "raised"
        /\ result[c1].message = result[c2].message)
       => FailedText(c1) = FailedText(c2)

\* C10: the callers that waited for the initialization attempt all saw its
\* one outcome: who went on found the service ready and the model loaded, who
\* got the error did so because the attempt failed, and no two callers saw
\* different outcomes.
C10_WaitersShareOutcome ==
    /\ \A c \in Callers :
          /\ initSeen[c] = "ok" => isInitialized /\ model = "pipeline"
          /\ initSeen[c] = "err" =>
                ~isInitialized /\ initializationPromise.state = "rejected"
    /\ \A c1, c2 \in Callers :
          (initSeen[c1] # "none" /\ initSeen[c2] # "none")
          => initSeen[c1] = initSeen[c2]

\* two callers have got the error of the failed attempt they both waited on
C10_Witness ==
    \E c1, c2 \in Callers :
       /\ c1 # c2
       /\ initSeen[c1] = "err" /\ result[c1].kind # "none"
       /\ initSeen[c2] = "err" /\ result[c2].kind # "none"
       /\ loads = 1

\* C11: once the cached dimension holds a value, no step of any operation
\* changes it to another value or clears it.
C11_CachedDimensionStable ==
    [][cachedDimension # 0 => cachedDimension' = cachedDimension]_vars

\* two calls have each run the probe to its end and written the cache: the
\* second write found the cache set
C11_Witness ==
    /\ cachedDimension # 0
    /\ probes >= 2
    /\ \E c1, c2 \in Callers :
          /\ c1 # c2
          /\ op[c1] = "getEmbeddingDimension" /\ result[c1].kind = "returned"
          /\ op[c2] = "getEmbeddingDimension" /\ result[c2].kind = "returned"
          /\ inferences[c1] = 1 /\ inferences[c2] = 1

\* the per-text computations of caller c's call that have not settled
InFlight(c) == Cardinality({j \in DOMAIN slots[c] : slots[c][j] = "pending"})

\* C12: within one embedDocuments call the batches run one after the other: a
\* step that starts per-text computations starts at most batchSize of them and
\* only when every computation started before has settled, so that never more
\* than batchSize computations of the call are in flight.
C12_BatchesSequential ==
    [][\A c \in Callers :
          /\ InFlight(c)' <= batchSize
          /\ inferences'[c] > inferences[c] =>
                /\ InFlight(c) = 0
                /\ inferences'[c] - inferences[c] <= batchSize]_vars

\* the second batch, a full one, has just been started
C12_Witness ==
    \E c \in Callers :
       /\ pc[c] = "batch"
       /\ i[c] = batchSize
       /\ inferences[c] = 2 * batchSize
       /\ InFlight(c) = batchSize

\* the state of the service as the fields give it: ready when isInitialized,
\* initializing while an attempt is in flight, uninitialized when no attempt
\* is recorded, as after construction; what is left is a recorded attempt
\* that has failed
Phase ==
    IF isInitialized THEN "ready"
    ELSE IF initializationPromise.state = "pending" THEN "initializing"
    ELSE IF initializationPromise.state = "null" THEN "uninitialized"
    ELSE "failed"

\* C13: the service moves only from uninitialized to initializing, from
\* initializing to ready and, on failure, from initializing back to
\* uninitialized; ready is never left and never entered from uninitialized.
C13_PhaseTransitions ==
    [][\/ Phase' = Phase
       \/ Phase = "uninitialized" /\ Phase' = "initializing"
       \/ Phase = "initializing" /\ Phase' = "ready"
       \/ Phase = "initializing" /\ Phase' = "uninitialized"]_vars

\* C14: this.model is assigned at most once, and once it holds the pipeline
\* no step replaces it or sets it back to null.
C14_ModelWriteOnce ==
    [][/\ modelWrites' <= 1
       /\ model # "null" => model' = model]_vars

\* the model has been assigned and calls have run to their end on it
C14_Witness ==
    /\ model = "pipeline"
    /\ modelWrites = 1
    /\ \E c1, c2 \in Callers :
          c1 # c2 /\ Done(c1) /\ Done(c2) /\ initSeen[c1] = "ok"

\* C15: a step of getEmbeddingDimension taken while the service is ready and
\* a dimension is cached, be it the call or the test of the cache after the
\* await of initialize(), starts no inference, no model load and no probe,
\* and the call returns the cached value.
C15_CachedDimensionNoWork ==
    [][\A c \in Callers :
          (/\ op'[c] = "getEmbeddingDimension"
           /\ pc[c] \in {"idle", "dimInit"}
           /\ pc'[c] # pc[c]
           /\ isInitialized
           /\ cachedDimension # 0)
          => /\ inferences' = inferences
             /\ loads' = loads
             /\ probes' = probes
             /\ pc'[c] \in {"dimInit", "done"}
             /\ pc'[c] = "done" => result'[c] = Returned(cachedDimension)]_vars

\* a getEmbeddingDimension call has returned the dimension without having run
\* an inference of its own
C15_Witness ==
    \E c \in Callers :
       /\ op[c] = "getEmbeddingDimension"
       /\ result[c].kind = "returned"
       /\ result[c].value = cachedDimension
       /\ inferences[c] = 0

\* C16: initialize, embedDocuments, embedQuery and getEmbeddingDimension fail
\* loud: a call that met a failure of the model load or of one of its
\* per-text computations ends with an error thrown to its caller, never with a
\* value.
C16_FailLoud ==
    \A c \in Callers :
       (/\ op[c] \in {"initialize", "embedDocuments", "embedQuery",
                      "getEmbeddingDimension"}
        /\ Done(c)
        /\ MetFailure(c))
       => /\ result[c].kind = "raised"
          /\ ~IsEmptyMessage(result[c].message)

\* a getEmbeddingDimension call has ended after its probe's inference failed
C16_Witness ==
    \E c \in Callers :
       /\ op[c] = "getEmbeddingDimension"
       /\ Done(c)
       /\ failedAt[c] # 0

\* C17: embedDocuments given one text that is not a list, the empty string
\* included, handles it as a list of one: the call is not refused as empty
\* input, runs exactly one per-text computation and, when it returns, returns
\* the one vector of that text; embedQuery(text) returns that vector itself.
C17_SingleTextIsOneElement ==
    \A c \in Callers :
       /\ (op[c] = "embedDocuments" /\ ~texts[c].isArray) =>
             /\ result[c] # Raised(Wrap(MsgGenerate, <<MsgNoTexts>>))
             /\ (pc[c] \in {"batch", "done"} /\ initSeen[c] = "ok")
                   => inferences[c] = 1
             /\ result[c].kind = "returned"
                   => result[c].value = <<Embed(texts[c].text)>>
       /\ (op[c] = "embedQuery" /\ result[c].kind = "returned") =>
             /\ inferences[c] = 1
             /\ result[c].value = Embed(texts[c].items[1])

\* embedDocuments("") has returned
C17_Witness ==
    \E c \in Callers :
       /\ op[c] = "embedDocuments"
       /\ ~texts[c].isArray
       /\ texts[c].text = ""
       /\ result[c].kind = "returned"

\* C18: the model is never called before it is loaded: whenever a call has
\* started a per-text computation, the one model load has completed and
\* this.model holds the pipeline; and isInitialized is never true while
\* this.model is null.
C18_NoInferenceBeforeLoad ==
    /\ isInitialized => model # "null"
    /\ \A c \in Callers :
          inferences[c] > 0 =>
             /\ model = "pipeline"
             /\ isInitialized
             /\ loading = 0
             /\ modelWrites = 1

\* two callers have per-text computations running on the loaded model
C18_Witness ==
    \E c1, c2 \in Callers :
       /\ c1 # c2
       /\ InFlight(c1) > 0
       /\ InFlight(c2) > 0
       /\ loads = 1

\* C19: once a per-text computation of an embedDocuments call has failed, the
\* call starts no further computation: the batches after the failing one are
\* never begun, while the computations of the failing batch that are still in
\* flight go on.
C19_NoBatchAfterFailure ==
    [][\A c \in Callers :
          failedAt[c] # 0 =>
             /\ inferences'[c] = inferences[c]
             /\ i'[c] = i[c]
             /\ DOMAIN slots'[c] = DOMAIN slots[c]]_vars

\* a call with batches still to come has ended on a failure while other
\* computations of the failing batch are still in flight
C19_Witness ==
    \E c \in Callers :
       /\ op[c] = "embedDocuments"
       /\ Done(c)
       /\ failedAt[c] # 0
       /\ InFlight(c) > 0
       /\ i[c] + batchSize < Len(TextArray(texts[c]))

\* C20: provided the model load and every inference eventually settle, every
\* call that was made eventually ends, whatever the number of callers: no
\* caller waits forever on the shared initialization attempt.
C20_CallsComplete ==
    \A c \in Callers : Called(c) ~> Done(c)

\* every caller has called and every call has ended, after one shared load
C20_Witness ==
    /\ loads = 1
    /\ loading = 0
    /\ \A c \in Callers : Done(c)

====
